---- MODULE Spec2Model ----
(***************************************************************************)
(* Model of token_store (src/src/lib.rs): a Store of type-erased values    *)
(* accessed through clonable Token<V> handles that share a liveness flag.  *)
(*                                                                         *)
(*   values : Vec<Option<(Box<Any>, Rc<Cell<bool>>)>>                      *)
(*   cells  : the heap of Rc<Cell<bool>> allocations; an Rc is the index   *)
(*            of its allocation, so two Rc are the same instance iff they  *)
(*            are the same index                                           *)
(*   tokens : the Token<V> handles the caller holds (a bag: clones are     *)
(*            equal as records)                                            *)
(*   last   : the call made by the last step and how it ended              *)
(*   removed: the flags of the tokens remove has succeeded with            *)
(*   peak   : the largest number of values the store has held at once      *)
(*   scen   : the shape of the run's inserts and removes so far            *)
(*                                                                         *)
(* A panic ends the call; the store stays usable (catch_unwind, or the     *)
(* test harness), so the model keeps running after one.                    *)
(***************************************************************************)
EXTENDS Bags, FiniteSets, Integers, Sequences, TLC

VARIABLES values, cells, tokens, last, removed, peak, scen

vars == <<values, cells, tokens, last, removed, peak, scen>>

\* Bounds of the model.
MaxFlags == 3      \* Rc<Cell<bool>> allocations, i.e. calls of insert
MaxTokens == 2     \* Token handles held at once

\* The storable types V, and the payloads of a value: the store never looks
\* into a payload, two of them tell a modified value from the original.
Types == {"i32", "String"}
Vals == {0, 1}

\* Option<T>: None, Some(x), is_none, unwrap.
None == <<>>
Some(x) == <<x>>
IsNone(o) == o = <<>>
Unwrap(o) == o[1]

\* Box::new(value) as Box<Any>: the value with its runtime type id.
Boxed(V, v) == [ty |-> V, val |-> v]

\* Token { id, live, _type: PhantomData<V> }
Token(i, l, V) == [id |-> i, live |-> l, ty |-> V]

\* A clone that leaves id at its default.
TokenCloneZeroId(t) == Token(0, t.live, t.ty)

\* impl Clone for Token<V>
TokenClone(t) == Token(t.id, t.live, t.ty)

\* An allocation that starts out false.
RcNewDead(cs) == [cells |-> Append(cs, FALSE), rc |-> Len(cs) + 1]

\* Rc::new(Cell::new(true)): a fresh allocation holding true.
RcNew(cs) == [cells |-> Append(cs, TRUE), rc |-> Len(cs) + 1]

\* live.get() and live.set(b) on the allocation an Rc points to.
CellGet(cs, rc) == cs[rc]
CellSet(cs, rc, b) == [cs EXCEPT ![rc] = b]

\* A scan that returns the last empty slot instead of the first.
FindEmptyLast(vals) ==
    LET empties == {i \in 0..(Len(vals) - 1) : IsNone(vals[i + 1])}
    IN  IF empties = {} THEN None
        ELSE Some(CHOOSE i \in empties : \A j \in empties : i >= j)

\* A scan that skips slot 0.
FindEmptySkipFirst(vals) ==
    LET empties == {i \in 1..(Len(vals) - 1) : IsNone(vals[i + 1])}
    IN  IF empties = {} THEN None
        ELSE Some(CHOOSE i \in empties : \A j \in empties : i <= j)

\* A scan with the test inverted: the first occupied slot.
FindOccupied(vals) ==
    LET taken == {i \in 0..(Len(vals) - 1) : ~IsNone(vals[i + 1])}
    IN  IF taken = {} THEN None
        ELSE Some(CHOOSE i \in taken : \A j \in taken : i <= j)

\* values.iter_mut().enumerate().find(|&(_, ref s)| s.is_none()):
\* the first (lowest, 0-based) index of an empty slot, if any.
FindEmpty(vals) ==
    LET empties == {i \in 0..(Len(vals) - 1) : IsNone(vals[i + 1])}
    IN  IF empties = {} THEN None
        ELSE Some(CHOOSE i \in empties : \A j \in empties : i <= j)

\* An insert that never looks for an empty slot.
StoreInsertAlwaysPush(vals, cs, V, v) ==
    LET new == RcNew(cs)
        pushed == Append(vals, Some([boxed |-> Boxed(V, v), live |-> new.rc]))
    IN  [values |-> pushed, cells |-> new.cells,
         token |-> Token(Len(pushed) - 1, new.rc, V)]

\* An insert that keeps one flag per slot position and sets it back to true
\* when the position is filled again.
StoreInsertFlagPerSlot(vals, cs, V, v) ==
    LET empty_slot == FindEmpty(vals)
        id == IF IsNone(empty_slot) THEN Len(vals) ELSE Unwrap(empty_slot)
        live == id + 1
        filled == Some([boxed |-> Boxed(V, v), live |-> live])
    IN  [values |-> IF IsNone(empty_slot) THEN Append(vals, filled)
                    ELSE [vals EXCEPT ![id + 1] = filled],
         cells |-> IF live <= Len(cs) THEN CellSet(cs, live, TRUE) ELSE Append(cs, TRUE),
         token |-> Token(id, live, V)]

\* An insert whose token after a push is values.len() instead of
\* values.len() - 1.
StoreInsertOffByOne(vals, cs, V, v) ==
    LET new == RcNew(cs)
        empty_slot == FindEmpty(vals)
        filled == Some([boxed |-> Boxed(V, v), live |-> new.rc])
    IN  IF ~IsNone(empty_slot)
        THEN [values |-> [vals EXCEPT ![Unwrap(empty_slot) + 1] = filled],
              cells |-> new.cells,
              token |-> Token(Unwrap(empty_slot), new.rc, V)]
        ELSE [values |-> Append(vals, filled),
              cells |-> new.cells,
              token |-> Token(Len(vals) + 1, new.rc, V)]

\* An insert that gives the slot a flag of its own instead of live.clone().
StoreInsertSplitFlag(vals, cs, V, v) ==
    LET new == RcNew(cs)
        copy == RcNew(new.cells)
        empty_slot == FindEmpty(vals)
        id == IF IsNone(empty_slot) THEN Len(vals) ELSE Unwrap(empty_slot)
        filled == Some([boxed |-> Boxed(V, v), live |-> copy.rc])
    IN  [values |-> IF IsNone(empty_slot) THEN Append(vals, filled)
                    ELSE [vals EXCEPT ![id + 1] = filled],
         cells |-> copy.cells,
         token |-> Token(id, new.rc, V)]

\* Store::insert
StoreInsert(vals, cs, V, v) ==
    LET boxed == Boxed(V, v)
        new == RcNew(cs)
        live == new.rc
        empty_slot == FindEmpty(vals)
    IN  IF ~IsNone(empty_slot)
        THEN LET id == Unwrap(empty_slot)
             IN  [values |-> [vals EXCEPT ![id + 1] = Some([boxed |-> boxed, live |-> live])],
                  cells |-> new.cells,
                  token |-> Token(id, live, V)]
        ELSE LET pushed == Append(vals, Some([boxed |-> boxed, live |-> live]))
             IN  [values |-> pushed,
                  cells |-> new.cells,
                  token |-> Token(Len(pushed) - 1, live, V)]

\* How a call ends: normally, or with one of the panics of the code.
Ok(r) == [outcome |-> "ok", ret |-> Some(r)]
Panic(why) == [outcome |-> why, ret |-> None]
Done == [outcome |-> "ok", ret |-> None]

\* Store::get
StoreGet(vals, cs, t) ==
    IF ~CellGet(cs, t.live) THEN Panic("UseAfterRemove")
    ELSE IF t.id >= Len(vals) THEN Panic("OutOfRange")
    ELSE IF IsNone(vals[t.id + 1]) THEN Panic("EmptySlot")
    ELSE IF Unwrap(vals[t.id + 1]).boxed.ty # t.ty THEN Panic("TypeMismatch")
    ELSE Ok(Unwrap(vals[t.id + 1]).boxed.val)

\* A get_mut that hands out a copy of the value: the write is lost.
StoreGetMutCopy(vals, cs, t, nv) ==
    LET r == StoreGet(vals, cs, t)
    IN  IF r.outcome # "ok" THEN [values |-> vals, res |-> r]
        ELSE [values |-> vals, res |-> r]

\* Store::get_mut, and the caller's write of nv through the returned &mut V.
StoreGetMut(vals, cs, t, nv) ==
    LET r == StoreGet(vals, cs, t)
    IN  IF r.outcome # "ok" THEN [values |-> vals, res |-> r]
        ELSE [values |-> [vals EXCEPT ![t.id + 1] =
                            Some([boxed |-> Boxed(t.ty, nv), live |-> Unwrap(@).live])],
              res |-> r]

\* A remove that forgets live.set(false).
StoreRemoveNoKill(vals, cs, t) ==
    LET r == StoreGet(vals, cs, t)
    IN  IF r.outcome # "ok" THEN [values |-> vals, cells |-> cs, res |-> r]
        ELSE [values |-> [vals EXCEPT ![t.id + 1] = None], cells |-> cs, res |-> r]

\* A remove that reads the slot with as_ref() instead of take().
StoreRemoveNoTake(vals, cs, t) ==
    LET r == StoreGet(vals, cs, t)
    IN  IF r.outcome # "ok" THEN [values |-> vals, cells |-> cs, res |-> r]
        ELSE [values |-> vals, cells |-> CellSet(cs, t.live, FALSE), res |-> r]

\* A remove that takes the slot before it looks at the token's flag.
StoreRemoveTakeFirst(vals, cs, t) ==
    IF t.id >= Len(vals)
    THEN [values |-> vals, cells |-> cs, res |-> Panic("OutOfRange")]
    ELSE LET taken == vals[t.id + 1]
             emptied == [vals EXCEPT ![t.id + 1] = None]
         IN  IF ~CellGet(cs, t.live)
             THEN [values |-> emptied, cells |-> cs, res |-> Panic("UseAfterRemove")]
             ELSE IF IsNone(taken)
             THEN [values |-> emptied, cells |-> cs, res |-> Panic("EmptySlot")]
             ELSE [values |-> emptied,
                   cells |-> CellSet(cs, Unwrap(taken).live, FALSE),
                   res |-> IF Unwrap(taken).boxed.ty # t.ty THEN Panic("TypeMismatch")
                           ELSE Ok(Unwrap(taken).boxed.val)]

\* Store::remove
StoreRemove(vals, cs, t) ==
    IF ~CellGet(cs, t.live)
    THEN [values |-> vals, cells |-> cs, res |-> Panic("UseAfterRemove")]
    ELSE IF t.id >= Len(vals)
    THEN [values |-> vals, cells |-> cs, res |-> Panic("OutOfRange")]
    ELSE LET taken == vals[t.id + 1]
             emptied == [vals EXCEPT ![t.id + 1] = None]
         IN  IF IsNone(taken)
             THEN [values |-> emptied, cells |-> cs, res |-> Panic("EmptySlot")]
             ELSE LET boxed == Unwrap(taken).boxed
                      live == Unwrap(taken).live
                      killed == CellSet(cs, live, FALSE)
                  IN  IF boxed.ty # t.ty
                      THEN [values |-> emptied, cells |-> killed,
                            res |-> Panic("TypeMismatch")]
                      ELSE [values |-> emptied, cells |-> killed,
                            res |-> Ok(boxed.val)]

\* The number of values the store holds.
LiveCount(vals) == Cardinality({i \in 1..Len(vals) : ~IsNone(vals[i])})

Max(a, b) == IF a >= b THEN a ELSE b

\* The record of a call: the operation, the token given or returned, the value
\* given (to insert, or written through the &mut V of get_mut), how the call
\* ended and the value returned or referred to.
Call(op, t, arg, res) ==
    [op |-> op, tok |-> t, arg |-> arg, outcome |-> res.outcome, ret |-> res.ret]

NoToken == Token(0, 0, "none")
NoArg == Boxed("none", 0)

\* The tokens in existence.
Held == BagToSet(tokens)

\* Store::new(): no slot, no flag, no token.
Init ==
    /\ values = <<>>
    /\ cells = <<>>
    /\ tokens = EmptyBag
    /\ last = Call("new", NoToken, NoArg, Done)
    /\ removed = {}
    /\ peak = 0
    /\ scen = [phase |-> "fill", n |-> 0, r |-> 0, m |-> 0]

\* The insert/remove scenario the run has followed so far: n inserts into a
\* new store ("fill"), then r removes ("drain"), then, once all n are removed,
\* m inserts ("refill"); "off" when the run left that shape.
ScenInsert(s) ==
    IF s.phase = "fill" THEN [s EXCEPT !.n = @ + 1]
    ELSE IF s.phase = "drain" /\ s.r = s.n THEN [s EXCEPT !.phase = "refill", !.m = 1]
    ELSE IF s.phase = "refill" THEN [s EXCEPT !.m = @ + 1]
    ELSE [s EXCEPT !.phase = "off"]

ScenRemove(s) ==
    IF s.phase \in {"fill", "drain"} THEN [s EXCEPT !.phase = "drain", !.r = @ + 1]
    ELSE [s EXCEPT !.phase = "off"]

\* let token = store.insert(value)
Insert(V, v) ==
    /\ Len(cells) < MaxFlags
    /\ BagCardinality(tokens) < MaxTokens
    /\ LET r == StoreInsert(values, cells, V, v)
       IN  /\ values' = r.values
           /\ cells' = r.cells
           /\ tokens' = tokens (+) SetToBag({r.token})
           /\ last' = Call("insert", r.token, Boxed(V, v), Done)
           /\ peak' = Max(peak, LiveCount(r.values))
    /\ scen' = ScenInsert(scen)
    /\ UNCHANGED removed

\* let token2 = token.clone()
Clone(t) ==
    /\ BagCardinality(tokens) < MaxTokens
    /\ tokens' = tokens (+) SetToBag({TokenClone(t)})
    /\ last' = Call("clone", TokenClone(t), NoArg, Done)
    /\ UNCHANGED <<values, cells, removed, peak, scen>>

\* drop(token): a handle goes out of scope; the store is not told.
Drop(t) ==
    /\ tokens' = tokens (-) SetToBag({t})
    /\ last' = Call("drop", NoToken, NoArg, Done)
    /\ UNCHANGED <<values, cells, removed, peak, scen>>

\* store.get(&token)
Get(t) ==
    /\ last' = Call("get", t, NoArg, StoreGet(values, cells, t))
    /\ UNCHANGED <<values, cells, tokens, removed, peak, scen>>

\* *store.get_mut(&token) = nv
GetMut(t, nv) ==
    LET r == StoreGetMut(values, cells, t, nv)
    IN  /\ values' = r.values
        /\ last' = Call("get_mut", t, Boxed(t.ty, nv), r.res)
        /\ UNCHANGED <<cells, tokens, removed, peak, scen>>

\* store.remove(token): the token is moved into the call, whatever its end.
Remove(t) ==
    LET r == StoreRemove(values, cells, t)
    IN  /\ values' = r.values
        /\ cells' = r.cells
        /\ tokens' = tokens (-) SetToBag({t})
        /\ last' = Call("remove", t, NoArg, r.res)
        /\ removed' = IF r.res.outcome = "ok" THEN removed \cup {t.live} ELSE removed
        /\ scen' = IF r.res.outcome = "ok" THEN ScenRemove(scen) ELSE scen
        /\ peak' = Max(peak, LiveCount(r.values))

Next ==
    \/ \E V \in Types, v \in Vals : Insert(V, v)
    \/ \E t \in Held : Clone(t)
    \/ \E t \in Held : Drop(t)
    \/ \E t \in Held : Get(t)
    \/ \E t \in Held, nv \in Vals : GetMut(t, nv)
    \/ \E t \in Held : Remove(t)

Spec == Init /\ [][Next]_vars

(***************************************************************************)
(* The properties.                                                         *)
(***************************************************************************)
AccessOps == {"get", "get_mut", "remove"}

\* The step is a call of insert, of remove.
InsertStep == last'.op = "insert" /\ Len(cells') > Len(cells)
RemoveStep == last'.op = "remove" /\ BagCardinality(tokens') < BagCardinality(tokens)

\* The empty slots (0-based) of the store.
Empties == {i \in 0..(Len(values) - 1) : IsNone(values[i + 1])}

\* C1: once remove has succeeded with a token, every get, get_mut or remove
\* with a clone of it (a token that shares its liveness flag) fails with
\* UseAfterRemove: each such call that is made ends so, and in every later
\* state each of the three calls would end so for every such clone held.
C1_CloneSharedLiveness ==
    [][\A f \in removed :
          /\ \A c \in Held : c.live = f =>
                /\ StoreGet(values, cells, c).outcome = "UseAfterRemove"
                /\ StoreGetMut(values, cells, c, 0).res.outcome = "UseAfterRemove"
                /\ StoreRemove(values, cells, c).res.outcome = "UseAfterRemove"
          /\ (last'.op \in AccessOps /\ last'.tok.live = f)
                => last'.outcome = "UseAfterRemove"]_vars

\* A call with a clone of a removed token has failed, another clone is still
\* held, and another token was inserted in between.
C1_Witness ==
    /\ last.op \in AccessOps
    /\ last.outcome = "UseAfterRemove"
    /\ last.tok.live \in removed
    /\ Len(cells) > last.tok.live
    /\ \E c \in Held : c.live = last.tok.live

\* C2: the flag of a removed token stays dead and no occupant of a slot
\* carries it, so get with a stale token fails whatever its slot holds now;
\* and right after an insert, into a reclaimed slot or not, the new token has
\* a flag that no removed token has and get with it returns the value inserted.
C2_IndependenceAfterReuse ==
    /\ \A f \in removed :
          /\ ~CellGet(cells, f)
          /\ \A i \in 1..Len(values) :
                ~IsNone(values[i]) => Unwrap(values[i]).live # f
    /\ \A c \in Held : c.live \in removed =>
          StoreGet(values, cells, c) = Panic("UseAfterRemove")
    /\ last.op = "insert" =>
          /\ last.tok.live \notin removed
          /\ StoreGet(values, cells, last.tok) = Ok(last.arg.val)

\* A value was inserted into the slot of a stale token that is still held,
\* after that slot had been reused once already.
C2_Witness ==
    /\ last.op = "insert"
    /\ Cardinality(removed) >= 2
    /\ \E c \in Held : c.live \in removed /\ c.id = last.tok.id

\* C3: right after insert(v), get with the returned token returns v, and the
\* token is a Token<V> for the type V of v.
C3_RoundTrip ==
    last.op = "insert" =>
        /\ last.tok.ty = last.arg.ty
        /\ StoreGet(values, cells, last.tok) = Ok(last.arg.val)

\* A value was inserted into a store that holds a value of another type.
C3_Witness ==
    /\ last.op = "insert"
    /\ \E i \in 1..Len(values) :
          ~IsNone(values[i]) /\ Unwrap(values[i]).boxed.ty # last.arg.ty

\* C4: after a get_mut that succeeded and wrote nv, get with the token or any
\* clone of it returns nv; and what get returns for a live token changes only
\* in a step that is a get_mut or a remove with a token of the same flag.
C4_MutationVisibility ==
    [][/\ (last'.op = "get_mut" /\ last'.outcome = "ok") =>
              \A c \in Held' : c.live = last'.tok.live =>
                  StoreGet(values', cells', c) = Ok(last'.arg.val)
       /\ \A c \in Held \cap Held' :
              (/\ StoreGet(values, cells, c).outcome = "ok"
               /\ ~(last'.op \in {"get_mut", "remove"} /\ last'.tok.live = c.live))
              => StoreGet(values', cells', c) = StoreGet(values, cells, c)]_vars

\* A get_mut with a token that has a clone has changed the value.
C4_Witness ==
    /\ last.op = "get_mut"
    /\ last.outcome = "ok"
    /\ last.ret # Some(last.arg.val)
    /\ CopiesIn(last.tok, tokens) >= 2

\* C5: for every live token held, the slot at its index exists, is occupied
\* and holds a value of the token's type, so get, get_mut and remove with it
\* succeed; and no call ever ends with a panic other than UseAfterRemove.
C5_RelationshipInvariant ==
    /\ \A t \in Held : CellGet(cells, t.live) =>
          /\ t.id < Len(values)
          /\ ~IsNone(values[t.id + 1])
          /\ Unwrap(values[t.id + 1]).boxed.ty = t.ty
          /\ StoreGet(values, cells, t).outcome = "ok"
          /\ \A nv \in Vals : StoreGetMut(values, cells, t, nv).res.outcome = "ok"
          /\ StoreRemove(values, cells, t).res.outcome = "ok"
    /\ last.outcome \in {"ok", "UseAfterRemove"}

\* Two live tokens of different types are held, a slot has been reused, and
\* a call with one of the tokens has succeeded.
C5_Witness ==
    /\ \E t1, t2 \in Held :
          /\ CellGet(cells, t1.live) /\ CellGet(cells, t2.live)
          /\ t1.ty # t2.ty
          /\ \E f \in removed : f < t1.live
    /\ last.op \in AccessOps
    /\ last.outcome = "ok"

\* C6: a flag starts alive when insert allocates it, goes from alive to dead
\* only in a remove that succeeds with a token carrying it, and is never set
\* back to alive.
C6_FlagMonotonic ==
    [][/\ \A f \in 1..Len(cells) :
              /\ f <= Len(cells')
              /\ ~CellGet(cells, f) => ~CellGet(cells', f)
              /\ (CellGet(cells, f) /\ ~CellGet(cells', f)) =>
                    /\ last'.op = "remove"
                    /\ last'.outcome = "ok"
                    /\ last'.tok.live = f
       /\ \A f \in (Len(cells) + 1)..Len(cells') :
              /\ CellGet(cells', f)
              /\ last'.op = "insert"
              /\ last'.tok.live = f]_vars

\* A remove has just set a flag dead, an older flag is dead and a younger
\* one is alive.
C6_Witness ==
    /\ last.op = "remove"
    /\ last.outcome = "ok"
    /\ ~CellGet(cells, last.tok.live)
    /\ \E f \in removed : f < last.tok.live
    /\ \E f \in 1..Len(cells) : f > last.tok.live /\ CellGet(cells, f)

\* C7: insert fills the lowest empty slot and keeps the slot count when a slot
\* is empty, and otherwise appends exactly one slot and fills it; the token
\* returned carries the index of the slot filled.
C7_FirstFit ==
    [][InsertStep =>
          LET id == last'.tok.id
              filled == Some([boxed |-> last'.arg, live |-> last'.tok.live])
          IN  /\ Empties # {} =>
                    /\ id \in Empties
                    /\ \A j \in Empties : id <= j
                    /\ Len(values') = Len(values)
              /\ Empties = {} =>
                    /\ id = Len(values)
                    /\ Len(values') = Len(values) + 1
              /\ values'[id + 1] = filled]_vars

\* A value was inserted while two slots were empty: it is in the lower one.
C7_Witness ==
    /\ last.op = "insert"
    /\ \E j \in Empties : j > last.tok.id

\* C8: the slot count is the largest number of values the store has held at
\* once, and no step lowers it.
C8_HighWaterMark ==
    /\ [](Len(values) = peak)
    /\ [][Len(values') >= Len(values)]_vars

\* More values were inserted than the store ever held at once, and a slot is
\* empty.
C8_Witness ==
    /\ Len(cells) > peak
    /\ peak >= 2
    /\ LiveCount(values) < peak

\* C9: after n inserts into a new store, the removal of all n and then m <= n
\* inserts, the store has n slots.
C9_SlotReuseBound ==
    (scen.phase = "refill" /\ scen.m <= scen.n) => Len(values) = scen.n

\* Two values were inserted, both removed, and one inserted again.
C9_Witness ==
    /\ scen.phase = "refill"
    /\ scen.n >= 2
    /\ scen.m >= 1

\* C10: remove with a live token returns the value get would have returned
\* just before, leaves the slot at the token's index empty and the token's
\* flag dead.
C10_RemoveReturnsValue ==
    [][(RemoveStep /\ CellGet(cells, last'.tok.live)) =>
          /\ last'.outcome = "ok"
          /\ last'.ret = StoreGet(values, cells, last'.tok).ret
          /\ last'.ret # None
          /\ IsNone(values'[last'.tok.id + 1])
          /\ ~CellGet(cells', last'.tok.live)]_vars

\* A remove has returned a value while the store holds another one.
C10_Witness ==
    /\ last.op = "remove"
    /\ last.outcome = "ok"
    /\ last.ret # None
    /\ LiveCount(values) >= 1

\* The flags the slots of the store hold.
SlotFlags == {Unwrap(values[i]).live : i \in {j \in 1..Len(values) : ~IsNone(values[j])}}

\* The flags the tokens in existence carry.
TokenFlags == {t.live : t \in Held}

\* C11: in every state insert, for every type and value, ends normally with a
\* token whose flag is a new allocation, carried by no token and held by no
\* slot of that state, and alive afterwards, and whose slot holds the value;
\* and every insert that is made ends so.
C11_InsertAlwaysSucceeds ==
    /\ [](\A V \in Types, v \in Vals :
            LET r == StoreInsert(values, cells, V, v)
            IN  /\ r.token.live \notin DOMAIN cells
                /\ r.token.live \notin TokenFlags
                /\ r.token.live \notin SlotFlags
                /\ r.token.live \in DOMAIN r.cells
                /\ CellGet(r.cells, r.token.live)
                /\ StoreGet(r.values, r.cells, r.token) = Ok(v))
    /\ [][InsertStep =>
            /\ last'.outcome = "ok"
            /\ last'.tok.live \notin DOMAIN cells
            /\ last'.tok.live \notin TokenFlags
            /\ last'.tok.live \notin SlotFlags
            /\ CellGet(cells', last'.tok.live)
            /\ last'.tok \in BagToSet(tokens')]_vars

\* A value was inserted while a stale token was held and another slot was
\* occupied.
C11_Witness ==
    /\ last.op = "insert"
    /\ CellGet(cells, last.tok.live)
    /\ \E c \in Held : c.live \in removed
    /\ \E f \in SlotFlags : f # last.tok.live

\* C12: a get, get_mut or remove that ends with UseAfterRemove leaves the
\* slots and the flags as they were, and so would each of them for every dead
\* token held; a remove with a stale token whose slot has a new occupant
\* leaves that occupant in its slot and its flag alive.
C12_StateUnchangedOnError ==
    [][/\ (last'.op \in AccessOps /\ last'.outcome = "UseAfterRemove") =>
              /\ values' = values
              /\ cells' = cells
       /\ \A c \in Held : ~CellGet(cells, c.live) =>
              /\ \A nv \in Vals : StoreGetMut(values, cells, c, nv).values = values
              /\ StoreRemove(values, cells, c).values = values
              /\ StoreRemove(values, cells, c).cells = cells]_vars

\* A remove with a stale token has failed while the slot it points to holds
\* a new occupant, which is still there and alive.
C12_Witness ==
    /\ last.op = "remove"
    /\ last.outcome = "UseAfterRemove"
    /\ last.tok.id < Len(values)
    /\ ~IsNone(values[last.tok.id + 1])
    /\ CellGet(cells, Unwrap(values[last.tok.id + 1]).live)

\* C13: every occupied slot holds a flag that is alive, and every live token
\* whose index is that slot carries that very flag; so the flag a remove with
\* a live token sets dead is the token's own, and no other.
C13_SlotFlagAgreement ==
    /\ \A i \in 1..Len(values) : ~IsNone(values[i]) =>
          /\ Unwrap(values[i]).live \in DOMAIN cells
          /\ CellGet(cells, Unwrap(values[i]).live)
          /\ \A t \in Held : (CellGet(cells, t.live) /\ t.id = i - 1) =>
                t.live = Unwrap(values[i]).live
    /\ \A t \in Held : CellGet(cells, t.live) =>
          StoreRemove(values, cells, t).cells = CellSet(cells, t.live, FALSE)
    /\ (last.op = "remove" /\ last.outcome = "ok") => ~CellGet(cells, last.tok.live)

\* A remove has succeeded while a live token is held whose flag, allocated
\* after an earlier removal, is the one in a slot.
C13_Witness ==
    /\ last.op = "remove"
    /\ last.outcome = "ok"
    /\ \E t \in Held :
          /\ CellGet(cells, t.live)
          /\ t.live \in SlotFlags
          /\ \E f \in removed : f < t.live

\* The flags that are alive.
AliveFlags == {f \in DOMAIN cells : CellGet(cells, f)}

\* C14: two live tokens with the same slot index carry the same flag; the
\* occupied slots hold distinct flags, and their number is the number of
\* alive flags, which is the number of inserts made (one allocation each)
\* less the number of removes that succeeded.
C14_NoAliasing ==
    /\ \A t1, t2 \in Held :
          (CellGet(cells, t1.live) /\ CellGet(cells, t2.live) /\ t1.id = t2.id)
              => t1.live = t2.live
    /\ \A i, j \in 1..Len(values) :
          (~IsNone(values[i]) /\ ~IsNone(values[j]) /\ i # j)
              => Unwrap(values[i]).live # Unwrap(values[j]).live
    /\ LiveCount(values) = Cardinality(AliveFlags)
    /\ LiveCount(values) = Len(cells) - Cardinality(removed)

\* A live token and its clone are held, the store holds two values, and a
\* remove has succeeded before.
C14_Witness ==
    /\ \E t \in Held : CellGet(cells, t.live) /\ CopiesIn(t, tokens) >= 2
    /\ LiveCount(values) >= 2
    /\ removed # {}

\* The slots (1-based positions) a step may change: the slot of the token of
\* an insert, a get_mut or a remove, and none for any other call.
Target ==
    IF last'.op \in {"insert", "get_mut", "remove"} THEN {last'.tok.id + 1} ELSE {}

\* C15: a step changes no slot but the one its insert, get_mut or remove
\* targets, and no flag but the one of the token of a remove (an insert only
\* adds one); slots are never dropped or moved; a get, a clone or a drop
\* changes no slot and no flag; every token held after a step is one held
\* before it, as it was, or the token the step returned; and a clone returns
\* a token equal in index, flag and type to one held, so one more of it is
\* held.
C15_Frame ==
    [][/\ Len(values') >= Len(values)
       /\ \A i \in 1..Len(values) : i \notin Target => values'[i] = values[i]
       /\ \A i \in (Len(values) + 1)..Len(values') : i \in Target
       /\ Len(cells') >= Len(cells)
       /\ \A f \in 1..Len(cells) :
              ~(last'.op = "remove" /\ last'.tok.live = f) => cells'[f] = cells[f]
       /\ last'.op \in {"get", "clone", "drop"} => (values' = values /\ cells' = cells)
       /\ last'.op \in {"get", "get_mut"} => tokens' = tokens
       /\ BagToSet(tokens') \subseteq (Held \cup {last'.tok})
       /\ \A t \in Held :
              CopiesIn(t, tokens') >=
                  CopiesIn(t, tokens) - (IF last'.op \in {"remove", "drop"} THEN 1 ELSE 0)
       /\ last'.op = "clone" =>
              /\ last'.tok \in Held
              /\ tokens' = tokens (+) SetToBag({last'.tok})]_vars

\* A token of a slot other than the first was cloned while the store held
\* two values.
C15_Witness ==
    /\ last.op = "clone"
    /\ last.tok.id >= 1
    /\ CopiesIn(last.tok, tokens) >= 2
    /\ LiveCount(values) >= 2
====
